---------------------------- MODULE Spec2Model ----------------------------
(***************************************************************************)
(* A model of the two function extractors of src/index.mjs:               *)
(*   analyzeFunctions(code)        (lines 9-245)                          *)
(*   getFunctionDeclarations(code) (lines 303-379)                        *)
(* Both walk the syntax tree tree-sitter produces.  The tree is the       *)
(* input; it is kept as the sequence of its nodes in pre-order, each node *)
(* with its type, the field name under which its parent holds it, its     *)
(* own text when it is a leaf, and the index of its parent (0 for the     *)
(* root).  Tokens no line of the code can tell apart ('function', '{',    *)
(* '=', '=>', ...) are left out of the trees; 'async', 'return', ';',     *)
(* '.' and 'new' are kept.                                                 *)
(***************************************************************************)
EXTENDS Integers, Sequences, FiniteSets, TLC

VARIABLES
  tree,                 \* parser.parse(code): the nodes, in pre-order
  entry,                \* which exported function is running
  status,               \* "ready", "running", "returned" or "threw"
  stack,                \* the frames of traverse / traverseTree
  currentClass,         \* line 16: the variable shared by all traverse calls
  functions,            \* line 15: the result of analyzeFunctions
  functionDeclarations, \* line 307: the result of getFunctionDeclarations
  visited,              \* history: the nodes in the order traverse(Tree) was called on them
  origin                \* history: for each record pushed, the node being visited

vars == <<tree, entry, status, stack, currentClass, functions,
          functionDeclarations, visited, origin>>

(***************************************************************************)
(* Bounds of the input trees.                                              *)
(***************************************************************************)
MaxReturnStmts == 2  \* statements of a body made of returns and nested functions
MaxCallStmts == 3    \* statements of a body made of calls and `new` declarations
MaxTop == 2          \* top-level statements of a program

\* JavaScript's null / undefined for a string-valued variable: the empty
\* sequence; a string s is held as <<s>>.
Null == <<>>

Some(s) == <<s>>

(***************************************************************************)
(* Syntax trees, as tree-sitter-javascript shapes them.                    *)
(***************************************************************************)
Leaf(type, field, text) ==
  << [type |-> type, field |-> field, text |-> text, parent |-> 0] >>

Shift(t, off) ==
  [i \in 1..Len(t) |->
     [t[i] EXCEPT !.parent = IF @ = 0 THEN 1 ELSE @ + off]]

RECURSIVE Graft(_, _)
Graft(kids, off) ==
  IF kids = <<>> THEN <<>>
  ELSE Shift(Head(kids), off) \o Graft(Tail(kids), off + Len(Head(kids)))

Node(type, field, kids) ==
  << [type |-> type, field |-> field, text |-> "", parent |-> 0] >>
    \o Graft(kids, 1)

Ident(field, s) == Leaf("identifier", field, s)

Params == Leaf("formal_parameters", "parameters", "()")

Arguments == Leaf("arguments", "arguments", "()")

AsyncToken(async) == IF async THEN << Leaf("async", "", "async") >> ELSE <<>>

Block(stmts) == Node("statement_block", "body", stmts)

FunctionDeclaration(async, name, stmts) ==
  Node("function_declaration", "",
       AsyncToken(async) \o << Ident("name", name), Params, Block(stmts) >>)

MethodDefinition(async, name, stmts) ==
  Node("method_definition", "",
       AsyncToken(async)
         \o << Leaf("property_identifier", "name", name), Params, Block(stmts) >>)

ClassDeclaration(name, members) ==
  Node("class_declaration", "",
       << Ident("name", name), Node("class_body", "body", members) >>)

ArrowFunction(async, stmts) ==
  Node("arrow_function", "value", AsyncToken(async) \o << Params, Block(stmts) >>)

FunctionExpression(async, stmts) ==
  Node("function", "value", AsyncToken(async) \o << Params, Block(stmts) >>)

\* const name = value;
LexicalDeclaration(name, value) ==
  Node("lexical_declaration", "",
       << Node("variable_declarator", "", << Ident("name", name), value >>) >>)

\* var name = value;
VariableDeclaration(name, value) ==
  Node("variable_declaration", "",
       << Node("variable_declarator", "", << Ident("name", name), value >>) >>)

\* callee();
CallStatement(callee) ==
  Node("expression_statement", "",
       << Node("call_expression", "", << callee, Arguments >>) >>)

\* object.property
MemberExpression(object, property) ==
  Node("member_expression", "function",
       << Ident("object", object), Leaf(".", "", "."),
          Leaf("property_identifier", "property", property) >>)

\* const v = new K();
NewDeclaration(v, K) ==
  LexicalDeclaration(v,
    Node("new_expression", "value",
         << Leaf("new", "", "new"), Ident("constructor", K), Arguments >>))

\* return;   return 5;   return 'a';
ReturnStatement(expr) ==
  Node("return_statement", "",
       << Leaf("return", "", "return") >> \o expr \o << Leaf(";", "", ";") >>)

ReturnBare == ReturnStatement(<<>>)

ReturnNumber == ReturnStatement(<< Leaf("number", "", "5") >>)

ReturnString == ReturnStatement(<< Leaf("string", "", "'a'") >>)

ReturnIdentifier == ReturnStatement(<< Ident("", "x") >>)

Program(stmts) == Node("program", "", stmts)


(***************************************************************************)
(* The input programs.  Three families:                                    *)
(*  - one function, in each of the four forms, async or not, whose body is *)
(*    up to MaxReturnStmts return statements and nested functions;         *)
(*  - one function or method whose body is up to MaxCallStmts calls and    *)
(*    `const v = new K()` declarations;                                    *)
(*  - up to MaxTop top-level statements, among them the shapes that lack   *)
(*    a child the code expects.                                            *)
(***************************************************************************)
SeqsUpTo(S, k) == UNION { [1..n -> S] : n \in 0..k }

FunctionForms == {"function_declaration", "method_definition", "arrow_function", "function"}

\* A statement holding a function named by `name`, of the given form.
FunctionOfForm(form, async, name, stmts) ==
  CASE form = "function_declaration" -> FunctionDeclaration(async, name, stmts)
    [] form = "method_definition" ->
         ClassDeclaration("C", << MethodDefinition(async, name, stmts) >>)
    [] form = "arrow_function" -> LexicalDeclaration(name, ArrowFunction(async, stmts))
    [] form = "function" -> VariableDeclaration(name, FunctionExpression(async, stmts))

\* function g() { return 5; } and its three siblings, as statements of a body
InnerFunctions ==
  { FunctionOfForm(form, FALSE, "g", << ReturnNumber >>) : form \in FunctionForms }

ReturnStmts ==
  { ReturnBare, ReturnNumber, ReturnString, ReturnIdentifier } \cup InnerFunctions

CallStmts ==
  { CallStatement(Ident("function", "g")),
    CallStatement(MemberExpression("v", "log")),
    CallStatement(MemberExpression("console", "log")),
    CallStatement(MemberExpression("console", "error")),
    NewDeclaration("v", "K"),
    NewDeclaration("v", "console") }

\* const e = () => 5;
ExpressionArrow ==
  LexicalDeclaration("e",
    Node("arrow_function", "value", << Params, Leaf("number", "body", "5") >>))

\* const b = x => x;   the single parameter is held under the field `parameter`
BareParameterArrow ==
  LexicalDeclaration("b",
    Node("arrow_function", "value", << Ident("parameter", "x"), Ident("body", "x") >>))

\* class C { [k]() {} }   the method's name is no property_identifier
ComputedNameMethod ==
  ClassDeclaration("C",
    << Node("method_definition", "",
            << Leaf("computed_property_name", "name", "[k]"), Params, Block(<<>>) >>) >>)

\* class C { m1() { class D {} }  m2() {} }
ClassInFirstMethod ==
  ClassDeclaration("C",
    << MethodDefinition(FALSE, "m1", << ClassDeclaration("D", <<>>) >>),
       MethodDefinition(FALSE, "m2", <<>>) >>)

\* (function() {})();
ImmediatelyInvoked ==
  Node("expression_statement", "",
    << Node("call_expression", "",
         << Node("parenthesized_expression", "function",
                 << Node("function", "", << Params, Block(<<>>) >>) >>),
            Arguments >>) >>)

TopItems ==
  { FunctionOfForm(form, FALSE, "f", <<>>) : form \in FunctionForms }
    \cup { ExpressionArrow, BareParameterArrow, ComputedNameMethod,
           ClassInFirstMethod, ImmediatelyInvoked }

ReturnPrograms ==
  { Program(<< FunctionOfForm(form, async, "f", body) >>) :
      form \in FunctionForms, async \in BOOLEAN, body \in SeqsUpTo(ReturnStmts, MaxReturnStmts) }

CallPrograms ==
  { Program(<< FunctionOfForm(form, FALSE, "f", body) >>) :
      form \in {"function_declaration", "method_definition"},
      body \in SeqsUpTo(CallStmts, MaxCallStmts) }

TopPrograms == { Program(items) : items \in SeqsUpTo(TopItems, MaxTop) }

Inputs == ReturnPrograms \cup CallPrograms \cup TopPrograms

(***************************************************************************)
(* The node API the code uses.  A node is its index in `tree`; 0 stands    *)
(* for undefined / null.                                                    *)
(***************************************************************************)
\* node.children walked from the last child to the first
childrenReversed(n) ==
  LET S == { j \in 1..Len(tree) : tree[j].parent = n }
      RECURSIVE Sorted(_, _)
      Sorted(T, acc) ==
        IF T = {} THEN acc
        ELSE LET m == CHOOSE x \in T : \A y \in T : y <= x
             IN Sorted(T \ {m}, Append(acc, m))
  IN Sorted(S, <<>>)

\* node.children
children(n) ==
  LET S == { j \in 1..Len(tree) : tree[j].parent = n }
      RECURSIVE Sorted(_, _)
      Sorted(T, acc) ==
        IF T = {} THEN acc
        ELSE LET m == CHOOSE x \in T : \A y \in T : x <= y
             IN Sorted(T \ {m}, Append(acc, m))
  IN Sorted(S, <<>>)

\* node.children.find((child) => child.type is one of `types`)
find(n, types) ==
  LET S == { j \in 1..Len(tree) : tree[j].parent = n /\ tree[j].type \in types }
  IN IF S = {} THEN 0 ELSE CHOOSE x \in S : \A y \in S : x <= y

\* node.childForFieldName(name)
childForFieldName(n, name) ==
  LET S == { j \in 1..Len(tree) : tree[j].parent = n /\ tree[j].field = name }
  IN IF S = {} THEN 0 ELSE CHOOSE x \in S : \A y \in S : x <= y

\* node.text: the source text the node spans (whitespace aside)
RECURSIVE text(_)
RECURSIVE TextOfAll(_)
TextOfAll(ns) == IF ns = <<>> THEN "" ELSE text(Head(ns)) \o TextOfAll(Tail(ns))

text(n) == IF children(n) = <<>> THEN tree[n].text ELSE TextOfAll(children(n))

\* JavaScript truthiness of a string-or-null value
Truthy(v) == v # Null /\ v[1] # ""

(***************************************************************************)
(* analyzeFunctions: the helpers of lines 57-240.                          *)
(***************************************************************************)
FunctionTypes == {"function", "method_definition", "arrow_function", "function_declaration"}

\* lines 128-142
RECURSIVE ParentIsFunction(_)
ParentIsFunction(parent) ==
  IF parent = 0 THEN FALSE
  ELSE IF tree[parent].type \in FunctionTypes THEN TRUE
  ELSE ParentIsFunction(tree[parent].parent)

isNestedFunction(node) == ParentIsFunction(tree[node].parent)

\* lines 180-187
RECURSIVE findReturnStatement(_)
RECURSIVE FirstReturnAmong(_)
FirstReturnAmong(ns) ==
  IF ns = <<>> THEN 0
  ELSE LET result == findReturnStatement(Head(ns))
       IN IF result # 0 THEN result ELSE FirstReturnAmong(Tail(ns))

findReturnStatement(node) ==
  IF tree[node].type = "return_statement" THEN node
  ELSE FirstReturnAmong(children(node))

\* line 163: returnStatement.children.find((child) => child.type !== 'return')
ReturnExpression(returnStatement) ==
  LET S == { j \in 1..Len(tree) :
               tree[j].parent = returnStatement /\ tree[j].type # "return" }
  IN IF S = {} THEN 0 ELSE CHOOSE x \in S : \A y \in S : x <= y

\* lines 161-172
ClassifyByReturn(returnStatement) ==
  IF returnStatement = 0 THEN "void"
  ELSE LET returnExpression == ReturnExpression(returnStatement)
       IN IF returnExpression = 0 THEN "void"
          ELSE IF tree[returnExpression].type = "number" THEN "number"
          ELSE IF tree[returnExpression].type = "string" THEN "string"
          ELSE "void"

\* determineReturnType with the async test moved behind the return statements
determineReturnTypeAsyncLast(node, isAsync, isArrow) ==
  LET body == find(node, {"statement_block", "expression"})
      byReturn == ClassifyByReturn(findReturnStatement(node))
  IN IF isArrow /\ body # 0 /\ tree[body].type = "expression" THEN "any"
     ELSE IF isArrow /\ body = 0 THEN "any"
     ELSE IF byReturn # "void" THEN byReturn
     ELSE IF isAsync THEN "Promise<void>"
     ELSE "void"

\* lines 151-173
determineReturnType(node, isAsync, isArrow) ==
  LET body == find(node, {"statement_block", "expression"})
  IN IF isAsync THEN "Promise<void>"
     ELSE IF isArrow /\ body # 0 /\ tree[body].type = "expression" THEN "any"
     ELSE IF isArrow /\ body = 0 THEN "any"
     ELSE ClassifyByReturn(findReturnStatement(node))

\* an array push in place of the Set's add
SetAddNoDedup(calledFunctions, functionName) == Append(calledFunctions, functionName)

\* line 229: calledFunctions.add(functionName) on a Set, which keeps
\* insertion order and ignores a value it already holds
SetAdd(calledFunctions, functionName) ==
  IF \E i \in 1..Len(calledFunctions) : calledFunctions[i] = functionName
  THEN calledFunctions
  ELSE Append(calledFunctions, functionName)

\* The Map of line 197, as the set of its <<key, value>> entries.
MapHas(classInstances, key) == \E e \in classInstances : e[1] = key

MapGet(classInstances, key) == (CHOOSE e \in classInstances : e[1] = key)[2]

\* a set that keeps the first class a variable was bound to
MapSetKeepFirst(classInstances, key, value) ==
  IF \E e \in classInstances : e[1] = key
  THEN classInstances
  ELSE classInstances \cup { <<key, value>> }

\* line 211: classInstances.set(id.text, className)
MapSet(classInstances, key, value) ==
  { e \in classInstances : e[1] # key } \cup { <<key, value>> }

\* lines 200-213: the variable_declarator branch
TrackInstance(st, n) ==
  LET id == find(n, {"identifier"})
      init == find(n, {"new_expression"})
      className == IF init = 0 THEN 0 ELSE find(init, {"identifier"})
  IN IF id # 0 /\ init # 0 /\ className # 0 /\ text(className) # ""
     THEN [st EXCEPT !.classInstances = MapSet(@, text(id), text(className))]
     ELSE st

\* lines 216-227: the name a call expression is recorded under
CalledName(classInstances, n) ==
  LET callee == children(n)[1]
      object == text(children(callee)[1])
      property == text(children(callee)[3])
  IN IF tree[callee].type = "member_expression" /\ object # "console"
     THEN IF MapHas(classInstances, object)
          THEN MapGet(classInstances, object) \o "." \o property
          ELSE object \o "." \o property
     ELSE text(callee)

\* lines 214-231: the call_expression branch.  children[0] of a call without
\* children, or children[0] / children[2] of a member expression with fewer
\* than three, is undefined and reading its .text throws.
RecordCall(st, n) ==
  IF children(n) = <<>>
       \/ (tree[children(n)[1]].type = "member_expression"
             /\ Len(children(children(n)[1])) < 3)
  THEN [st EXCEPT !.threw = TRUE]
  ELSE LET functionName == CalledName(st.classInstances, n)
       IN IF functionName # "console.log"
          THEN [st EXCEPT !.calledFunctions = SetAdd(@, functionName)]
          ELSE st

\* lines 199-236
RECURSIVE traverseForCalls(_, _)
RECURSIVE TraverseAllForCalls(_, _)
TraverseAllForCalls(st, ns) ==
  IF ns = <<>> \/ st.threw THEN st
  ELSE TraverseAllForCalls(traverseForCalls(st, Head(ns)), Tail(ns))

traverseForCalls(st, n) ==
  LET after == IF tree[n].type = "variable_declarator" THEN TrackInstance(st, n)
               ELSE IF tree[n].type = "call_expression" THEN RecordCall(st, n)
               ELSE st
  IN TraverseAllForCalls(after, children(n))

\* lines 195-240; the result carries `threw` when a TypeError left the walk
extractCalledFunctions(node, className) ==
  traverseForCalls([calledFunctions |-> <<>>, classInstances |-> {}, threw |-> FALSE],
                   node)

\* lines 110-115: { name, parameters, returnType } and the two optional fields
FunctionInfo(name, parameters, returnType, className, calledFunctions) ==
  LET base == [name |-> name, parameters |-> parameters, returnType |-> returnType]
      withClass == IF Truthy(className) THEN base @@ [class |-> className[1]] ELSE base
  IN IF Len(calledFunctions) > 0
     THEN withClass @@ [call |-> calledFunctions]
     ELSE withClass

\* lines 57-121.  The result is Null (return null, or the catch of line 116,
\* whose two console.error calls are taken to complete) or <<functionInfo>>.
extractFunctionInfo(node, className) ==
  LET type == tree[node].type
      declarator == find(node, {"variable_declarator"})
      value == IF declarator = 0 THEN 0
               ELSE find(declarator, {"arrow_function", "function"})
      functionNode ==
        IF type \in {"method_definition", "function_declaration"} THEN node ELSE value
      nameNode ==
        IF type = "method_definition" THEN find(node, {"property_identifier"})
        ELSE IF type = "function_declaration" THEN find(node, {"identifier"})
        ELSE find(declarator, {"identifier"})
      isArrow == type \in {"lexical_declaration", "variable_declaration"}
                   /\ tree[value].type = "arrow_function"
      parameters == find(functionNode, {"formal_parameters"})
      isAsync == find(functionNode, {"async"}) # 0
      called == extractCalledFunctions(functionNode, className)
  IN IF functionNode = 0 THEN Null            \* lines 80, 86
     ELSE IF nameNode = 0 THEN Null           \* .text of undefined: lines 68, 71, 91
     ELSE IF isNestedFunction(node) THEN Null \* line 98
     ELSE IF parameters = 0 THEN Null         \* .text of undefined: line 103
     ELSE IF called.threw THEN Null           \* lines 216-219
     ELSE << FunctionInfo(text(nameNode), text(parameters),
                          determineReturnType(functionNode, isAsync, isArrow),
                          className, called.calledFunctions) >>

(***************************************************************************)
(* getFunctionDeclarations: one call of traverseTree, up to its loop over  *)
(* the children (lines 316-366).  startPosition and endPosition are the    *)
(* pre-order indices of the node and of its last descendant: they order    *)
(* nodes as their source positions do.                                      *)
(***************************************************************************)
RECURSIVE LastDescendant(_)
LastDescendant(n) ==
  IF children(n) = <<>> THEN n
  ELSE LastDescendant(children(n)[Len(children(n))])

\* lines 316-321
ClassOnEntry(node, cls) ==
  LET nameNode == childForFieldName(node, "name")
  IN IF tree[node].type \in {"class_declaration", "class"} /\ nameNode # 0
     THEN Some(text(nameNode))
     ELSE cls

\* line 323
IsDeclarationSite(node, insideFunction) ==
  tree[node].type \in {"function_declaration", "method_definition", "arrow_function"}
    /\ ~insideFunction

\* lines 330-354: the node whose text becomes functionName, or 0
NameNode(node) ==
  IF tree[node].type \in {"function_declaration", "method_definition"}
  THEN childForFieldName(node, "name")
  ELSE IF tree[node].parent # 0 /\ tree[tree[node].parent].type = "variable_declarator"
  THEN childForFieldName(tree[node].parent, "name")
  ELSE 0

\* lines 335, 342, 351: parametersList.text is read once nameNode is there,
\* and parametersList is null when no child is held under `parameters`
SignatureThrows(node) ==
  NameNode(node) # 0 /\ childForFieldName(node, "parameters") = 0

\* lines 335, 342, 351
Signature(node, cls) ==
  LET functionName == text(NameNode(node))
      parametersList == childForFieldName(node, "parameters")
  IN IF tree[node].type = "method_definition" /\ Truthy(cls)
     THEN cls[1] \o "." \o functionName \o text(parametersList)
     ELSE functionName \o text(parametersList)

\* lines 357-364: the records this call pushes
Declaration(node, cls) ==
  IF NameNode(node) # 0 /\ text(NameNode(node)) # ""
  THEN << [type |-> tree[node].type,
           name |-> IF Signature(node, cls) # "" THEN Signature(node, cls)
                    ELSE text(NameNode(node)),
           startPosition |-> node,
           endPosition |-> LastDescendant(node)] >>
  ELSE <<>>

(***************************************************************************)
(* The state machine.  A frame of `stack` is one active call of traverse   *)
(* (or traverseTree): its node and the position of its loop over            *)
(* node.children.  An exception no try block catches unwinds every frame.   *)
(***************************************************************************)
Init ==
  /\ tree \in Inputs
  /\ entry \in {"analyzeFunctions", "getFunctionDeclarations"}
  /\ status = "ready"
  /\ stack = <<>>
  /\ currentClass = Null
  /\ functions = <<>>
  /\ functionDeclarations = <<>>
  /\ visited = <<>>
  /\ origin = <<>>

Top == stack[Len(stack)]

Advanced == [stack EXCEPT ![Len(stack)].next = @ + 1]

\* lines 22-38: traverse(node) up to its loop.  The find of line 26 is
\* outside every try block; it throws on a class_declaration without an
\* identifier child, a shape the grammar does not derive (a class without a
\* name parses as a class expression), so no input program holds one.
traverse(node, callers) ==
  LET type == tree[node].type
      id == find(node, {"identifier"})
      func == IF type \in {"method_definition", "function_declaration",
                           "lexical_declaration", "variable_declaration"}
              THEN extractFunctionInfo(node, currentClass)
              ELSE Null
  IN /\ visited' = Append(visited, node)
     /\ IF type = "class_declaration" /\ id = 0
        THEN /\ status' = "threw"
             /\ stack' = <<>>
             /\ UNCHANGED <<currentClass, functions, origin>>
        ELSE /\ status' = "running"
             /\ stack' = Append(callers, [node |-> node, next |-> 1])
             /\ currentClass' = IF type = "class_declaration" THEN Some(text(id))
                                ELSE currentClass
             /\ functions' = functions \o func
             /\ origin' = IF func # Null THEN Append(origin, node) ELSE origin

\* lines 11-15, 243: parse, then traverse(tree.rootNode)
AnalyzeFunctions ==
  /\ entry = "analyzeFunctions"
  /\ status = "ready"
  /\ traverse(1, <<>>)
  /\ UNCHANGED <<tree, entry, functionDeclarations>>

\* lines 41-43: the next iteration of the loop calls traverse(child)
TraverseCall ==
  /\ entry = "analyzeFunctions"
  /\ status = "running"
  /\ Top.next <= Len(children(Top.node))
  /\ traverse(children(Top.node)[Top.next], Advanced)
  /\ UNCHANGED <<tree, entry, functionDeclarations>>

\* lines 45-49, and line 244 when the call on the root returns
TraverseReturn ==
  /\ entry = "analyzeFunctions"
  /\ status = "running"
  /\ Top.next > Len(children(Top.node))
  /\ currentClass' = IF tree[Top.node].type = "class_declaration" THEN Null
                     ELSE currentClass
  /\ stack' = SubSeq(stack, 1, Len(stack) - 1)
  /\ status' = IF Len(stack) = 1 THEN "returned" ELSE "running"
  /\ UNCHANGED <<tree, entry, functions, functionDeclarations, visited, origin>>

\* lines 315-366: traverseTree(node, currentClass, insideFunction) up to its
\* loop; the frame keeps the two arguments the loop hands to the children.
traverseTree(node, cls, insideFunction, callers) ==
  LET here == ClassOnEntry(node, cls)
      site == IsDeclarationSite(node, insideFunction)
      pushed == IF site THEN Declaration(node, here) ELSE <<>>
  IN /\ visited' = Append(visited, node)
     /\ IF site /\ SignatureThrows(node)
        THEN /\ status' = "threw"
             /\ stack' = <<>>
             /\ UNCHANGED <<functionDeclarations, origin>>
        ELSE /\ status' = "running"
             /\ stack' = Append(callers,
                                [node |-> node, next |-> 1, currentClass |-> here,
                                 insideFunction |-> (site \/ insideFunction)])
             /\ functionDeclarations' = functionDeclarations \o pushed
             /\ origin' = IF pushed # <<>> THEN Append(origin, node) ELSE origin

\* lines 304-307, 377
GetFunctionDeclarations ==
  /\ entry = "getFunctionDeclarations"
  /\ status = "ready"
  /\ traverseTree(1, Null, FALSE, <<>>)
  /\ UNCHANGED <<tree, entry, currentClass, functions>>

\* lines 367-369 and 371-373
TraverseTreeCall ==
  /\ entry = "getFunctionDeclarations"
  /\ status = "running"
  /\ Top.next <= Len(children(Top.node))
  /\ traverseTree(children(Top.node)[Top.next], Top.currentClass,
                  Top.insideFunction, Advanced)
  /\ UNCHANGED <<tree, entry, currentClass, functions>>

\* line 375, and line 378 when the call on the root returns
TraverseTreeReturn ==
  /\ entry = "getFunctionDeclarations"
  /\ status = "running"
  /\ Top.next > Len(children(Top.node))
  /\ stack' = SubSeq(stack, 1, Len(stack) - 1)
  /\ status' = IF Len(stack) = 1 THEN "returned" ELSE "running"
  /\ UNCHANGED <<tree, entry, currentClass, functions, functionDeclarations,
                 visited, origin>>

Next ==
  \/ AnalyzeFunctions
  \/ TraverseCall
  \/ TraverseReturn
  \/ GetFunctionDeclarations
  \/ TraverseTreeCall
  \/ TraverseTreeReturn

Spec == Init /\ [][Next]_vars

(***************************************************************************)
(* What the properties speak of.  These definitions read the tree by       *)
(* pre-order position and ancestry, not through the code's walkers.        *)
(***************************************************************************)
Nodes == 1..Len(tree)

RECURSIVE IsAncestor(_, _)
IsAncestor(a, n) ==
  LET p == tree[n].parent
  IN p # 0 /\ (p = a \/ IsAncestor(a, p))

\* the node and its descendants
Within(n) == { j \in Nodes : j = n \/ IsAncestor(n, j) }

HasFunctionAncestor(n) ==
  \E a \in Nodes : IsAncestor(a, n) /\ tree[a].type \in FunctionTypes

HasChildOfType(n, type) == \E j \in Nodes : tree[j].parent = n /\ tree[j].type = type

FirstChild(n) == CHOOSE j \in Nodes : tree[j].parent = n /\ \A k \in Nodes : tree[k].parent = n => j <= k

LastChild(n) == CHOOSE j \in Nodes : tree[j].parent = n /\ \A k \in Nodes : tree[k].parent = n => k <= j

Min(S) == CHOOSE x \in S : \A y \in S : x <= y

Max(S) == CHOOSE x \in S : \A y \in S : y <= x

\* the records returned, whichever function ran
Results == IF entry = "analyzeFunctions" THEN functions ELSE functionDeclarations

\* the function-bearing node of the record pushed at node o
FunctionNodeOf(o) ==
  IF tree[o].type \in {"lexical_declaration", "variable_declaration"}
  THEN CHOOSE j \in Within(o) :
         /\ tree[j].type \in {"arrow_function", "function"}
         /\ tree[tree[j].parent].type = "variable_declarator"
         /\ tree[tree[j].parent].parent = o
  ELSE o

Analyzed == entry = "analyzeFunctions" /\ status = "returned"

Records == 1..Len(origin)

CallsOf(r) == IF "call" \in DOMAIN r THEN r.call ELSE <<>>

Entries(calls) == { calls[k] : k \in 1..Len(calls) }

CallExpressions(fn) == { c \in Within(fn) : tree[c].type = "call_expression" }

IsMemberCall(c) == tree[FirstChild(c)].type = "member_expression"

ObjectOf(c) == text(FirstChild(FirstChild(c)))

PropertyOf(c) == text(LastChild(FirstChild(c)))

\* the declarators `v = new K(...)` of fn that precede call c in pre-order
InstancesBefore(fn, c) ==
  { d \in Within(fn) :
      /\ d < c
      /\ tree[d].type = "variable_declarator"
      /\ \E i \in Nodes : /\ tree[i].parent = d /\ tree[i].type = "identifier"
                          /\ text(i) = ObjectOf(c)
      /\ \E e \in Nodes : /\ tree[e].parent = d /\ tree[e].type = "new_expression"
                          /\ HasChildOfType(e, "identifier") }

ClassOfInstance(d) ==
  LET e == CHOOSE x \in Nodes : tree[x].parent = d /\ tree[x].type = "new_expression"
      k == Min({ x \in Nodes : tree[x].parent = e /\ tree[x].type = "identifier" })
  IN text(k)

\* the name under which call c of function fn is to be listed
ExpectedName(fn, c) ==
  IF IsMemberCall(c) /\ ObjectOf(c) # "console"
  THEN IF InstancesBefore(fn, c) # {}
       THEN ClassOfInstance(Max(InstancesBefore(fn, c))) \o "." \o PropertyOf(c)
       ELSE ObjectOf(c) \o "." \o PropertyOf(c)
  ELSE text(FirstChild(c))

IsAsyncNode(fn) == HasChildOfType(fn, "async")

\* an arrow function whose body is an expression, not a block
IsExpressionArrow(fn) ==
  tree[fn].type = "arrow_function" /\ ~HasChildOfType(fn, "statement_block")

HasExpression(ret) ==
  \E j \in Nodes : tree[j].parent = ret /\ tree[j].type \notin {"return", ";"}

LiteralLabel(ret) ==
  LET e == Min({ j \in Nodes : tree[j].parent = ret /\ tree[j].type \notin {"return", ";"} })
  IN IF tree[e].type = "number" THEN "number"
     ELSE IF tree[e].type = "string" THEN "string"
     ELSE "void"

ReturnStatements(fn) == { j \in Within(fn) : tree[j].type = "return_statement" }

\* the return statements of fn that are not inside a function nested in fn
OwnReturnStatements(fn) ==
  { j \in ReturnStatements(fn) :
      ~\E a \in Nodes : /\ tree[a].type \in FunctionTypes
                        /\ IsAncestor(fn, a) /\ IsAncestor(a, j) }

\* the class declaration whose body holds method o directly, or 0
ClassOfMethod(o) ==
  LET b == tree[o].parent
  IN IF tree[o].type = "method_definition" /\ b # 0 /\ tree[b].type = "class_body"
          /\ tree[b].parent # 0 /\ tree[tree[b].parent].type = "class_declaration"
          /\ HasChildOfType(tree[b].parent, "identifier")
     THEN tree[b].parent
     ELSE 0

HasClassAncestor(n) ==
  \E a \in Nodes : IsAncestor(a, n) /\ tree[a].type = "class_declaration"

(***************************************************************************)
(* The properties.                                                         *)
(***************************************************************************)

\* C1 -- Nesting exclusion: neither analyzeFunctions nor
\* getFunctionDeclarations emits a record for a function-bearing node that
\* has an ancestor which is a method definition, function declaration, arrow
\* function or function expression.
NestingExclusion ==
  \A i \in Records : ~HasFunctionAncestor(FunctionNodeOf(origin[i]))

\* C2 -- console exclusion: no record of analyzeFunctions lists a call whose
\* callee is a member access on the object `console`.
ConsoleExclusion ==
  Analyzed =>
    \A i \in Records :
      \A c \in CallExpressions(FunctionNodeOf(origin[i])) :
        (IsMemberCall(c) /\ ObjectOf(c) = "console")
          => text(FirstChild(c)) \notin Entries(CallsOf(functions[i]))

\* C3 -- Class scoping in analyzeFunctions: the record of a method defined in
\* the body of class declaration C has class = "C", and the record of a
\* function with no enclosing class declaration has no class field.
ClassScoping ==
  Analyzed =>
    \A i \in Records :
      /\ ClassOfMethod(origin[i]) # 0 =>
           /\ "class" \in DOMAIN functions[i]
           /\ functions[i].class = text(Min({ j \in Nodes :
                                   /\ tree[j].parent = ClassOfMethod(origin[i])
                                   /\ tree[j].type = "identifier" }))
      /\ ~HasClassAncestor(origin[i]) => "class" \notin DOMAIN functions[i]

\* a top-level function declaration with its name and its parameter list
WellFormedDeclaration(n) ==
  /\ tree[n].type = "function_declaration"
  /\ ~HasFunctionAncestor(n)
  /\ \E j \in Nodes : tree[j].parent = n /\ tree[j].type = "identifier"
                        /\ tree[j].field = "name"
  /\ \E j \in Nodes : tree[j].parent = n /\ tree[j].type = "formal_parameters"
                        /\ tree[j].field = "parameters"

\* C4 -- Malformed-node recovery: analyzeFunctions and
\* getFunctionDeclarations run to completion on every tree, and a node that
\* lacks an expected child costs no other function its record.
MalformedNodeRecovery ==
  /\ status # "threw"
  /\ status = "returned" =>
       \A n \in Nodes : WellFormedDeclaration(n) => \E i \in Records : origin[i] = n

\* C5, as claimed -- Alias resolution: every call v.p() with v other than
\* `console` is listed as "K.p" when a declarator `v = new K(...)` was
\* visited earlier in the pre-order pass (K of the most recent one) and as
\* the literal "v.p" otherwise.
AliasResolutionAsClaimed ==
  Analyzed =>
    \A i \in Records :
      \A c \in CallExpressions(FunctionNodeOf(origin[i])) :
        (IsMemberCall(c) /\ ObjectOf(c) # "console")
          => ExpectedName(FunctionNodeOf(origin[i]), c) \in Entries(CallsOf(functions[i]))

\* C5, amended -- as claimed, except that a resolved name equal to
\* "console.log" (v bound by `new console(...)`, p = log) is not listed; and
\* nothing is listed but the names the calls of the function resolve to.
AliasResolution ==
  Analyzed =>
    \A i \in Records :
      LET fn == FunctionNodeOf(origin[i])
          listed == Entries(CallsOf(functions[i]))
      IN /\ \A c \in CallExpressions(fn) :
              (IsMemberCall(c) /\ ObjectOf(c) # "console"
                 /\ ExpectedName(fn, c) # "console.log")
                => ExpectedName(fn, c) \in listed
         /\ \A e \in listed : \E c \in CallExpressions(fn) : ExpectedName(fn, c) = e

\* v.log(); const v = new K(); v.log();   the first call is listed as
\* "v.log", the second as "K.log"
AliasResolutionWitness ==
  /\ Analyzed
  /\ \E i \in Records :
       LET fn == FunctionNodeOf(origin[i])
       IN /\ CallsOf(functions[i]) = << "v.log", "K.log" >>
          /\ \E c \in CallExpressions(fn) :
               IsMemberCall(c) /\ ObjectOf(c) = "v" /\ InstancesBefore(fn, c) = {}
          /\ \E c \in CallExpressions(fn) :
               IsMemberCall(c) /\ ObjectOf(c) = "v" /\ InstancesBefore(fn, c) # {}

\* C6 -- Call deduplication: the call list holds no string twice, holds the
\* resolved names in the order their first call expressions come in
\* pre-order, and is present only when it is not empty.
CallDeduplication ==
  Analyzed =>
    \A i \in Records :
      LET fn == FunctionNodeOf(origin[i])
          calls == CallsOf(functions[i])
          recorded == { c \in CallExpressions(fn) : ExpectedName(fn, c) # "console.log" }
          FirstOf(name) == Min({ c \in recorded : ExpectedName(fn, c) = name })
      IN /\ "call" \in DOMAIN functions[i] => Len(functions[i].call) > 0
         /\ \A k, l \in 1..Len(calls) : k # l => calls[k] # calls[l]
         /\ Entries(calls) = { ExpectedName(fn, c) : c \in recorded }
         /\ \A k, l \in 1..Len(calls) : k < l => FirstOf(calls[k]) < FirstOf(calls[l])

\* one name called three times and listed once
CallDeduplicationWitness ==
  /\ Analyzed
  /\ \E i \in Records :
       /\ Cardinality(CallExpressions(FunctionNodeOf(origin[i]))) = 3
       /\ CallsOf(functions[i]) = << "g" >>

\* every record was pushed at the node then being visited, later in
\* pre-order than the node of every record before it
InOrder ==
  /\ Len(Results) = Len(origin)
  /\ \A i, j \in Records : i < j => origin[i] < origin[j]

IsAppend(old, new) == Len(new) = Len(old) + 1 /\ SubSeq(new, 1, Len(old)) = old

\* a step leaves the records alone or appends one, at the node it enters,
\* before it has entered any descendant of that node
AppendsOnly ==
  \/ /\ functions' = functions
     /\ functionDeclarations' = functionDeclarations
     /\ origin' = origin
  \/ /\ Len(visited') = Len(visited) + 1
     /\ origin' = Append(origin, visited'[Len(visited')])
     /\ \A k \in 1..Len(visited) : ~IsAncestor(visited'[Len(visited')], visited[k])
     /\ \A k \in 1..Len(visited) : visited[k] < visited'[Len(visited')]
     /\ \/ IsAppend(functions, functions') /\ functionDeclarations' = functionDeclarations
        \/ IsAppend(functionDeclarations, functionDeclarations') /\ functions' = functions

\* C7 -- Order preservation: the records returned by analyzeFunctions and by
\* getFunctionDeclarations are in the pre-order of the nodes that produced
\* them; a record is appended when its node is first visited, before its
\* descendants, and never reordered or removed.
OrderPreservation == [](InOrder) /\ [][AppendsOnly]_vars

\* two records returned, two nodes apart
OrderPreservationWitness ==
  /\ status = "returned"
  /\ Len(Results) >= 2

\* C8 -- Return-type precedence: the record of an async function has
\* returnType "Promise<void>" whatever its form and its return statements,
\* and every returnType is one of void, any, number, string, Promise<void>.
ReturnTypePrecedence ==
  Analyzed =>
    \A i \in Records :
      /\ functions[i].returnType \in {"void", "any", "number", "string", "Promise<void>"}
      /\ IsAsyncNode(FunctionNodeOf(origin[i])) => functions[i].returnType = "Promise<void>"

\* an async function with `return 5` of its own
ReturnTypePrecedenceWitness ==
  /\ Analyzed
  /\ \E i \in Records :
       /\ IsAsyncNode(FunctionNodeOf(origin[i]))
       /\ \E j \in OwnReturnStatements(FunctionNodeOf(origin[i])) :
            HasExpression(j) /\ LiteralLabel(j) = "number"
       /\ functions[i].returnType = "Promise<void>"

\* C9 -- Return-type rule 3: a function that is not async and no
\* expression-bodied arrow is classified by the first return statement, in
\* depth-first order, that contains an expression; a bare `return;` before
\* it is skipped.
FirstReturnWithExpression ==
  Analyzed =>
    \A i \in Records :
      LET fn == FunctionNodeOf(origin[i])
          withExpression == { j \in ReturnStatements(fn) : HasExpression(j) }
      IN (~IsAsyncNode(fn) /\ ~IsExpressionArrow(fn)) =>
           functions[i].returnType =
             IF withExpression = {} THEN "void" ELSE LiteralLabel(Min(withExpression))

\* C10 -- Own return statements only: the return statements of functions
\* nested in a function never change its returnType; the type is the one its
\* own return statements give.
OwnReturnStatementsOnly ==
  Analyzed =>
    \A i \in Records :
      LET fn == FunctionNodeOf(origin[i])
          own == OwnReturnStatements(fn)
      IN (~IsAsyncNode(fn) /\ ~IsExpressionArrow(fn)) =>
           functions[i].returnType = ClassifyByReturn(IF own = {} THEN 0 ELSE Min(own))

=============================================================================
